---- MODULE Spec2Model ----
(***************************************************************************)
(* Unfitted finite elements on level-set domains: the three notebooks      *)
(* CutFEM.ipynb (Nitsche interface problem), intlset.ipynb (integration on *)
(* level-set domains and the space-time slab loop) and MoL_TraceFEM.ipynb  *)
(* (moving surface, method of lines).                                      *)
(*                                                                         *)
(* The specifications share the mesh and the classification operators:     *)
(*   SpecLib    - GetDofsOfElements / GetFacetsWithNeighborTypes applied   *)
(*                to arbitrary element sets;                               *)
(*   SpecCut    - the cells of CutFEM.ipynb up to the first solve;         *)
(*   SpecLoops  - the two time loops (intlset.ipynb, MoL_TraceFEM.ipynb);  *)
(*   SpecRefine - the convergence loop of intlset.ipynb;                   *)
(*   SpecTasks  - the TaskManager blocks;                                  *)
(*   SpecGeom   - UpdateBand and Integrate called on their own;            *)
(*   SpecSolve  - the two cycles of assembly and solve of CutFEM.ipynb.    *)
(***************************************************************************)
EXTENDS Integers, FiniteSets, Sequences, TLC

(***************************************************************************)
(* Bounds of the model.                                                    *)
(***************************************************************************)
\* number of triangles of the background mesh (a strip of triangles)
NT == 3
\* nodal level-set values of CutFEM.ipynb are drawn from -MaxLset..MaxLset
MaxLset == 1
\* the end time T of MoL_TraceFEM.ipynb is drawn from 0..MaxSteps*dt
MaxSteps == 3
\* largest rounding error, in time quanta, of one floating-point addition
MaxRoundErr == 1
\* the interface starts at one of MaxX0+1 positions relative to the mesh
MaxX0 == 4

(***************************************************************************)
(* Background mesh: a strip of NT triangles over the vertices 0..NT+1;     *)
(* triangle e has the vertices e, e+1, e+2.  A facet is an edge <<i, j>>,  *)
(* i < j.  The edges <<i, i+1>>, 0 < i < NT, are shared by two triangles,  *)
(* all other edges lie on the boundary of the domain.                      *)
(***************************************************************************)
Verts == 0..(NT + 1)

Elements == 0..(NT - 1)

ElVerts(e) == {e, e + 1, e + 2}

ElFacets(e) == {<<e, e + 1>>, <<e + 1, e + 2>>, <<e, e + 2>>}

Facets == UNION {ElFacets(e) : e \in Elements}

FacetEls(f) == {e \in Elements : f \in ElFacets(e)}

BndFacets == {f \in Facets : Cardinality(FacetEls(f)) = 1}

SetMin(S) == CHOOSE x \in S : \A y \in S : x <= y

SetMax(S) == CHOOSE x \in S : \A y \in S : y <= x

\* the sum of the values of f over the set S
RECURSIVE SumOver(_, _)
SumOver(f, S) ==
    IF S = {} THEN 0
    ELSE LET e == CHOOSE e \in S : TRUE
         IN  f[e] + SumOver(f, S \ {e})

(***************************************************************************)
(* Finite element spaces.  A dof is a triple: <<"v", i, i>> the vertex dof *)
(* of vertex i, <<"e", i, j>> the edge dof of edge <<i, j>> (order 2),     *)
(* <<"st", i, k>> the dof of vertex i at the temporal node k of the        *)
(* space-time space.                                                       *)
(*   "Vh"      H1(mesh, order = 2, dirichlet = [1,2,3,4])   (CutFEM)       *)
(*   "VhTrace" H1(mesh, order = 1, dirichlet = [])          (MoL_TraceFEM) *)
(*   "st_fes"  SpaceTimeFESpace(H1 order k_s = 1, ScalarTimeFE(k_t = 1))   *)
(***************************************************************************)
FesNames == {"Vh", "VhTrace", "st_fes"}

VertexDofs(e) == {<<"v", v, v>> : v \in ElVerts(e)}

EdgeDofs(e) == {<<"e", f[1], f[2]>> : f \in ElFacets(e)}

TimeNodes == {0, 1}

SpaceTimeDofs(e) == {<<"st", v, k>> : v \in ElVerts(e), k \in TimeNodes}

ElDofs(fes, e) ==
    CASE fes = "Vh" -> VertexDofs(e) \cup EdgeDofs(e)
      [] fes = "VhTrace" -> VertexDofs(e)
      [] fes = "st_fes" -> SpaceTimeDofs(e)

FesDofs(fes) == UNION {ElDofs(fes, e) : e \in Elements}

\* the dofs of Vh on the boundary of the domain (all four sides are Dirichlet)
DirichletDofs ==
    {<<"e", f[1], f[2]>> : f \in BndFacets}
        \cup {<<"v", f[k], f[k]>> : f \in BndFacets, k \in {1, 2}}

\* Vh.FreeDofs(): the boundary-condition mask of one component
VhFreeDofs == FesDofs("Vh") \ DirichletDofs

\* VhG = FESpace([Vh,Vh]): a dof of VhG is <<component, dof of Vh>>
VhGDofs == {0, 1} \X FesDofs("Vh")

\* VhG.FreeDofs() as the space is constructed
VhGFreeDofs == {0, 1} \X VhFreeDofs

CompoundBitArray(b0, b1) == ({0} \X b0) \cup ({1} \X b1)

(***************************************************************************)
(* CutInfo.  The element markers of a piecewise linear level-set field,    *)
(* given by the set vals[e] of its nodal values on element e.  A linear    *)
(* function on an element takes exactly the values between its smallest    *)
(* and its largest nodal value, so                                         *)
(*   NEG    : phi < 0 everywhere on the element                            *)
(*   POS    : phi > 0 everywhere on the element                            *)
(*   IF     : phi = 0 somewhere on the element                             *)
(*   HASNEG : phi < 0 somewhere on the element                             *)
(*   HASPOS : phi > 0 somewhere on the element                             *)
(***************************************************************************)
DomainTypes == {"NEG", "POS", "IF", "HASNEG", "HASPOS"}

\* the elements of domain type dt, by the smallest and largest nodal value
Marked(dt, lo, hi) ==
    CASE dt = "NEG" -> hi < 0
      [] dt = "POS" -> lo > 0
      [] dt = "IF" -> lo <= 0 /\ hi >= 0
      [] dt = "HASNEG" -> lo < 0
      [] dt = "HASPOS" -> hi > 0

CutInfoOfVals_StrictIF(vals) ==
    [dt \in DomainTypes |->
        {e \in Elements :
            IF dt = "IF"
            THEN SetMin(vals[e]) < 0 /\ SetMax(vals[e]) > 0
            ELSE Marked(dt, SetMin(vals[e]), SetMax(vals[e]))}]

CutInfoOfVals(vals) ==
    [dt \in DomainTypes |->
        {e \in Elements : Marked(dt, SetMin(vals[e]), SetMax(vals[e]))}]

\* the nodal values of a spatial P1 field on the elements
ElVals(lset) == [e \in Elements |-> {lset[v] : v \in ElVerts(e)}]

ElValsST_BottomOnly(lset_st) ==
    [e \in Elements |-> {lset_st[v][0] : v \in ElVerts(e)}]

\* the nodal values of a space-time field (linear in time) on the elements:
\* the values at the vertices at both temporal nodes
ElValsST(lset_st) ==
    [e \in Elements |-> {lset_st[v][k] : v \in ElVerts(e), k \in TimeNodes}]

\* CutInfo(mesh, lset): construction on a spatial P1 field
CutInfo(lset) == CutInfoOfVals(ElVals(lset))

\* ci.Update(lset_p1, time_order = 2*k_t): update on a space-time field
CutInfoUpdateST(lset_st) == CutInfoOfVals(ElValsST(lset_st))

\* CutInfo(mesh, time_order = 2*k_t): constructed without a level set
EmptyCutInfo == [dt \in DomainTypes |-> {}]

GetElementsOfType_Uncut(c, dt) ==
    CASE dt = "HASNEG" -> c["NEG"]
      [] dt = "HASPOS" -> c["POS"]
      [] OTHER -> c[dt]

GetElementsOfType(c, dt) == c[dt]

(***************************************************************************)
(* GetDofsOfElements(fes, S): the dofs of the elements marked in S.        *)
(***************************************************************************)
GetDofsOfElements_VertexOnly(fes, S) ==
    UNION {ElDofs(fes, e) \cap {d \in FesDofs(fes) : d[1] = "v"} : e \in S}

GetDofsOfElements(fes, S) == UNION {ElDofs(fes, e) : e \in S}

(***************************************************************************)
(* GetFacetsWithNeighborTypes(mesh, a, b): for every facet with two        *)
(* adjacent elements el1 < el2, the facet is marked if el1 is in a and el2 *)
(* in b, or el1 in b and el2 in a.                                         *)
(***************************************************************************)
GetFacetsWithNeighborTypes_OneWay(a, b) ==
    {f \in Facets :
        /\ Cardinality(FacetEls(f)) = 2
        /\ SetMin(FacetEls(f)) \in a /\ SetMax(FacetEls(f)) \in b}

GetFacetsWithNeighborTypes(a, b) ==
    {f \in Facets :
        /\ Cardinality(FacetEls(f)) = 2
        /\ LET el1 == SetMin(FacetEls(f))
               el2 == SetMax(FacetEls(f))
           IN  (el1 \in a /\ el2 \in b) \/ (el1 \in b /\ el2 \in a)}

(***************************************************************************)
(* freedofs &= CompoundBitArray([...]) of CutFEM.ipynb                     *)
(***************************************************************************)
RestrictFreeDofs_Or(free, active) == free \cup active

RestrictFreeDofs_Swapped(free, active) ==
    free \cap {<<1 - d[1], d[2]>> : d \in active}

RestrictFreeDofs(free, active) == free \cap active

VARIABLES
    \* SpecLib: the arguments and results of the library calls
    argFes, argS, argA, argB, resDofs, resFacets, called,
    \* SpecCut: CutFEM.ipynb
    pcC, lsetp1, hasneg, haspos, freedofs, solveMask,
    \* ci and gfu of the notebook that runs
    ci, gfu,
    \* SpecLoops: which time loop runs ("slab": intlset.ipynb, "mol":
    \* MoL_TraceFEM.ipynb), its position, and the time variables
    nb, pc, T, told, tnew, timestep, coef_told,
    \* position of the interface relative to the mesh at time 0
    x0,
    \* level-set fields: lset_approx (MoL), lset_p1 / lset_bottom / lset_top
    lset_approx, lset_p1, lset_bottom, lset_top,
    \* element, facet and dof markers
    ba_new_IF, ba_band_IF, visband, active_dofs, ba_facets,
    definedon_hasneg, definedon_patch,
    \* the spatial trace of the previous slab
    u_last,
    \* history: how often each operation of the slab loop has run, the number
    \* of level-set updates and of classifications, and whether the field
    \* has been written since the last classification
    ops, lsetUpdates, ciUpdates, lsetWrittenSinceCi

VARIABLES
    \* SpecRefine: which cell runs ("convergence": the refinement loop of
    \* intlset.ipynb, "cutfem": the last cell of CutFEM.ipynb), its position,
    \* the loop variables, whether a deformation is set on the mesh, the
    \* number of refinements of the mesh and the length of the error lists
    prog, pcR, reflevel, key, deformed, meshGen, errorsLen,
    \* history: a refinement ran while a deformation was set
    refinedDeformed,
    \* history of the time loops: whether a linear solve has failed, and the
    \* values of told, timestep, u_last, gfu and ops when it did
    failure,
    \* SpecTasks: the calls of one slab inside the TaskManager region: the
    \* position of the main thread, the index of the current call, the slab,
    \* the elements whose task of the current call has not started, the
    \* tasks <<call, element>> in execution, and for every element the slab
    \* whose classification it holds
    pcT, opT, slabT, todoT, runT, ciStamp,
    \* history: a task read a classification that is not the current slab's;
    \* a reading task ran while a task of ci.Update was in execution
    staleRead, overlap,
    \* SpecGeom: UpdateBand and Integrate applied to an arbitrary P1 level
    \* set: arguments, position and results
    argT, argC0, argLset, argOffset, pcG, resBand, resVisband, resIntegral,
    \* SpecSolve: the assemble/solve cycles of CutFEM.ipynb with numbers: the
    \* number of solves done, the number of solves done when freedofs was
    \* derived, the state of the mesh the matrix and the vector were
    \* assembled on, gfu as it was when the last solve started, and for
    \* every solve its cycle, the cycle of its mask, the mask and the
    \* classification
    cycle, maskCycle, asm, gfuBefore, solveLog

libVars == <<argFes, argS, argA, argB, resDofs, resFacets, called>>

refVars ==
    <<prog, pcR, reflevel, key, deformed, meshGen, errorsLen, refinedDeformed>>

taskVars == <<pcT, opT, slabT, todoT, runT, ciStamp, staleRead, overlap>>

geomVars ==
    <<argT, argC0, argLset, argOffset, pcG, resBand, resVisband, resIntegral>>

solveVars == <<cycle, maskCycle, asm, gfuBefore, solveLog>>

\* the variables of SpecRefine, SpecTasks, SpecGeom and SpecSolve
extOther == <<refVars, taskVars, geomVars, solveVars>>

extVars == <<extOther, failure>>

cutVars == <<pcC, lsetp1, hasneg, haspos, freedofs, solveMask>>

timeVars == <<T, told, tnew, timestep, coef_told>>

lsetVars == <<lset_approx, lset_p1, lset_bottom, lset_top>>

markerVars ==
    <<ba_new_IF, ba_band_IF, visband, active_dofs, ba_facets,
      definedon_hasneg, definedon_patch>>

histVars == <<ops, lsetUpdates, ciUpdates, lsetWrittenSinceCi>>

loopVars == <<nb, pc, x0, timeVars, lsetVars, markerVars, u_last, histVars>>

vars == <<libVars, cutVars, ci, gfu, loopVars, extVars>>

LibIdle ==
    /\ argFes = "Vh" /\ argS = {} /\ argA = {} /\ argB = {}
    /\ resDofs = {} /\ resFacets = {} /\ called = {}

CutIdle ==
    /\ pcC = "idle"
    /\ lsetp1 = [v \in Verts |-> 1]
    /\ hasneg = {} /\ haspos = {}
    /\ freedofs = VhGFreeDofs
    /\ solveMask = {}

OpNames == {"geom", "asm", "solve", "final"}

LoopIdle ==
    /\ nb = "none" /\ pc = "idle" /\ x0 = 0
    /\ T = 0 /\ told = 0 /\ tnew = 0 /\ timestep = 0 /\ coef_told = 0
    /\ lset_approx = [v \in Verts |-> 0]
    /\ lset_p1 = [v \in Verts |-> [k \in TimeNodes |-> 0]]
    /\ lset_bottom = [v \in Verts |-> 0]
    /\ lset_top = [v \in Verts |-> 0]
    /\ ba_new_IF = {} /\ ba_band_IF = {} /\ active_dofs = {} /\ ba_facets = {}
    /\ visband = [e \in Elements |-> 0]
    /\ definedon_hasneg = {} /\ definedon_patch = {}
    /\ u_last = [v \in Verts |-> 0]
    /\ ops = [o \in OpNames |-> 0]
    /\ lsetUpdates = 0 /\ ciUpdates = 0 /\ lsetWrittenSinceCi = FALSE

RefIdle ==
    /\ prog = "none" /\ pcR = "idle" /\ reflevel = 0 /\ key = 1
    /\ deformed = FALSE /\ meshGen = 0 /\ errorsLen = 0
    /\ refinedDeformed = FALSE

NoFailure == [failed |-> FALSE]

TaskIdle ==
    /\ pcT = "idle" /\ opT = 1 /\ slabT = 0
    /\ todoT = {} /\ runT = {}
    /\ ciStamp = [e \in Elements |-> 0]
    /\ staleRead = FALSE /\ overlap = FALSE

GeomIdle ==
    /\ argT = 0 /\ argC0 = 0
    /\ argLset = [v \in Verts |-> 1] /\ argOffset = 0 /\ pcG = "idle"
    /\ resBand = {}
    /\ resVisband = [e \in Elements |-> 0]
    /\ resIntegral = [k \in {"NEG", "POS", "IF"} |-> [e \in Elements |-> 0]]

NotAssembled == [n |-> 0, deformed |-> FALSE]

SolveIdle ==
    /\ cycle = 0 /\ maskCycle = 0 /\ asm = NotAssembled
    /\ gfuBefore = <<>> /\ solveLog = <<>>

ExtIdle == RefIdle /\ TaskIdle /\ GeomIdle /\ SolveIdle /\ failure = NoFailure

(***************************************************************************)
(* SpecLib: the two library functions on arbitrary element sets.           *)
(***************************************************************************)
InitLib ==
    /\ argFes \in FesNames
    /\ argS \in SUBSET Elements
    /\ argA \in SUBSET Elements
    /\ argB \in SUBSET Elements
    /\ resDofs = {} /\ resFacets = {} /\ called = {}
    /\ ci = EmptyCutInfo
    /\ gfu = [d \in VhGDofs |-> "zero"]
    /\ CutIdle
    /\ LoopIdle
    /\ ExtIdle

CallGetDofsOfElements ==
    /\ "dofs" \notin called
    /\ resDofs' = GetDofsOfElements(argFes, argS)
    /\ called' = called \cup {"dofs"}
    /\ UNCHANGED <<argFes, argS, argA, argB, resFacets, cutVars, ci, gfu, loopVars, extVars>>

CallGetFacetsWithNeighborTypes ==
    /\ "facets" \notin called
    /\ resFacets' = GetFacetsWithNeighborTypes(argA, argB)
    /\ called' = called \cup {"facets"}
    /\ UNCHANGED <<argFes, argS, argA, argB, resDofs, cutVars, ci, gfu, loopVars, extVars>>

NextLib == CallGetDofsOfElements \/ CallGetFacetsWithNeighborTypes

SpecLib == InitLib /\ [][NextLib]_vars

(***************************************************************************)
(* SpecCut: the cells of CutFEM.ipynb.                                     *)
(***************************************************************************)
LsetVals == (-MaxLset)..MaxLset

InitCut ==
    /\ pcC = "lset"
    /\ lsetp1 = [v \in Verts |-> 1]
    /\ ci = EmptyCutInfo
    /\ hasneg = {} /\ haspos = {}
    /\ freedofs = VhGFreeDofs
    /\ gfu = [d \in VhGDofs |-> "zero"]
    /\ solveMask = {}
    /\ LibIdle
    /\ LoopIdle
    /\ ExtIdle

\* lsetp1 = GridFunction(H1(mesh,order=1)); InterpolateToP1(levelset,lsetp1)
CutInterpolateToP1 ==
    /\ pcC = "lset"
    /\ lsetp1' \in [Verts -> LsetVals]
    /\ pcC' = "cutinfo"
    /\ UNCHANGED <<ci, hasneg, haspos, freedofs, gfu, solveMask, libVars, loopVars, extVars>>

\* ci = CutInfo(mesh, lsetp1)
CutCutInfo ==
    /\ pcC = "cutinfo"
    /\ ci' = CutInfo(lsetp1)
    /\ pcC' = "freedofs"
    /\ UNCHANGED <<lsetp1, hasneg, haspos, freedofs, gfu, solveMask, libVars, loopVars, extVars>>

\* hasneg, haspos, freedofs: freedofs is VhG's own array, restricted in place
CutFreeDofs ==
    /\ pcC = "freedofs"
    /\ hasneg' = GetElementsOfType(ci, "HASNEG")
    /\ haspos' = GetElementsOfType(ci, "HASPOS")
    /\ freedofs' =
          RestrictFreeDofs(VhGFreeDofs,
              CompoundBitArray(GetDofsOfElements("Vh", hasneg'),
                               GetDofsOfElements("Vh", haspos')))
    /\ pcC' = "assemble"
    /\ UNCHANGED <<lsetp1, ci, gfu, solveMask, libVars, loopVars, extVars>>

\* gfu = GridFunction(VhG); gfu.components[1].Set(solution[1], BND);
\* a.Assemble(); f.Assemble()
CutAssemble ==
    /\ pcC = "assemble"
    /\ gfu' = [d \in VhGDofs |->
                  IF d[1] = 1 /\ d[2] \in DirichletDofs THEN "bnd" ELSE "zero"]
    /\ pcC' = "solve"
    /\ UNCHANGED <<lsetp1, ci, hasneg, haspos, freedofs, solveMask, libVars, loopVars, extVars>>

\* SolveLinearSystem(): the update a.mat.Inverse(freedofs) * rhs vanishes
\* outside freedofs
CutSolveLinearSystem ==
    /\ pcC = "solve"
    /\ solveMask' = freedofs
    /\ gfu' = [d \in VhGDofs |-> IF d \in freedofs THEN "sol" ELSE gfu[d]]
    /\ pcC' = "done"
    /\ UNCHANGED <<lsetp1, ci, hasneg, haspos, freedofs, libVars, loopVars, extVars>>

NextCut ==
    \/ CutInterpolateToP1
    \/ CutCutInfo
    \/ CutFreeDofs
    \/ CutAssemble
    \/ CutSolveLinearSystem

SpecCut == InitCut /\ [][NextCut]_vars

\* -------------------------------------------------------------------------
\* The two time loops: the space-time slab loop of intlset.ipynb and the
\* method-of-lines loop of MoL_TraceFEM.ipynb.
\*
\* Time is counted in quanta; one time step is dt (MoL) or delta_t (slab)
\* quanta.  Lengths are counted in the same unit; the velocity is 1.  The
\* slab loop adds delta_t = 1/32, a power of two, so its additions are exact.
\* The MoL loop adds dt = 0.0025, which is no binary fraction: from the
\* second addition on, told + dt is rounded, by at most MaxRoundErr quanta.
\* -------------------------------------------------------------------------

\* tend = 1
tend == 1024

\* delta_t = tend/32
delta_t == tend \div 32

\* dt = 0.0025, one time step of the MoL loop
dt == 32

\* vel = 1
vel == 1

\* mesh size: distance of two neighbouring mesh vertices
H == 64

\* radius of the circle of MoL_TraceFEM.ipynb (four mesh sizes)
R == 4 * H

\* radius r0 of the circle of intlset.ipynb (six mesh sizes)
r0 == 6 * H

X(v) == v * H

Abs(x) == IF x < 0 THEN -x ELSE x

\* levelset_function(t) of MoL_TraceFEM.ipynb at the position xpos, for a
\* circle whose centre is at c0 at time 0: sqrt((x - vel*t)^2 + y^2) - R
levelset_function(t, c0, xpos) == Abs(xpos - c0 - vel * t) - R

\* rho(t) = sin(2 pi t)/pi of intlset.ipynb, as the triangle wave of the same
\* period tend and of amplitude tend/4
rho(t) ==
    LET s == t % tend
    IN  IF s <= tend \div 4 THEN s
        ELSE IF s <= 3 * (tend \div 4) THEN (tend \div 2) - s
        ELSE s - tend

\* levelset of intlset.ipynb: the distance to the circle of radius r0 whose
\* centre is at c0 + rho(t)
levelset(t, c0, xpos) == Abs(xpos - c0 - rho(t)) - r0

\* InterpolateToP1(levelset_function(t) + offset, gf): the nodal values
InterpolateToP1(t, c0, offset) ==
    [v \in Verts |-> levelset_function(t, c0, X(v)) + offset]

\* SpaceTimeInterpolateToP1(levelset, coef_told, told, delta_t, lset_p1):
\* the nodal values at the two time nodes told and told + delta_t
SpaceTimeInterpolateToP1(t0, step, c0) ==
    [v \in Verts |-> [k \in TimeNodes |-> levelset(t0 + k * step, c0, X(v))]]

RestrictGFInTime_Bottom(spacetime_gf, k) ==
    [v \in Verts |-> spacetime_gf[v][0]]

\* RestrictGFInTime(spacetime_gf, reference_time, space_gf)
RestrictGFInTime(spacetime_gf, k) == [v \in Verts |-> spacetime_gf[v][k]]

UpdateBand_NoOffset(t, c0, offset) ==
    GetElementsOfType(CutInfo(InterpolateToP1(t, c0, 0)), "IF")

UpdateBand_Or(t, c0, offset) ==
    LET ciP == CutInfo(InterpolateToP1(t, c0, offset))
        ciM == CutInfo(InterpolateToP1(t, c0, -offset))
    IN  (GetElementsOfType(ciP, "POS") \cup GetElementsOfType(ciP, "IF"))
            \cup (GetElementsOfType(ciM, "NEG") \cup GetElementsOfType(ciM, "IF"))

UpdateBand_NegatedOffset(t, c0, offset) ==
    LET ciP == CutInfo(InterpolateToP1(t, c0, -offset))
        ciM == CutInfo(InterpolateToP1(t, c0, offset))
    IN  (GetElementsOfType(ciP, "POS") \cup GetElementsOfType(ciP, "IF"))
            \cap (GetElementsOfType(ciM, "NEG") \cup GetElementsOfType(ciM, "IF"))

\* UpdateBand(lset, offset, ba_band_IF): the elements with level-set values
\* in [-offset, offset]
UpdateBand(t, c0, offset) ==
    LET ciP == CutInfo(InterpolateToP1(t, c0, offset))
        ciM == CutInfo(InterpolateToP1(t, c0, -offset))
        ba_band_IF_P == GetElementsOfType(ciP, "POS") \cup GetElementsOfType(ciP, "IF")
        ba_band_IF_M == GetElementsOfType(ciM, "NEG") \cup GetElementsOfType(ciM, "IF")
    IN  ba_band_IF_P \cap ba_band_IF_M

\* tnew = told + dt in double precision
AddDt(t) ==
    IF t = 0 THEN {dt}
    ELSE {t + dt + e : e \in (-MaxRoundErr)..MaxRoundErr}

MolGuard_NoHalf(t, tEnd) == t < tEnd

MolGuard_FullStep(t, tEnd) == t < tEnd - dt

\* while (told < T-dt/2)
MolGuard(t, tEnd) == 2 * t < 2 * tEnd - dt

\* while tend - told > delta_t/2
SlabGuard(t) == 2 * (tend - t) > delta_t

\* the values a dof of gfu can hold: the initial data, zero, or the solution
\* of step n
GfInit == [kind |-> "init", step |-> 0]

GfZero == [kind |-> "zero", step |-> 0]

GfSol(n) == [kind |-> "sol", step |-> n]

\* gfu.vec.data = a.mat.Inverse(active_dofs) * f.vec
SolveOn(fes, active, n) ==
    [d \in FesDofs(fes) |-> IF d \in active THEN GfSol(n) ELSE GfZero]

X0Set(radius) == {k * (H \div 2) - radius : k \in 0..MaxX0}

TSet == {k * (dt \div 4) : k \in 0..(4 * MaxSteps)}

\* what no step of a time loop changes
loopFixed == <<libVars, cutVars, extVars, nb, x0, T>>

InitLoops ==
    /\ LibIdle /\ CutIdle /\ ExtIdle
    /\ nb \in {"slab", "mol"}
    /\ pc = IF nb = "slab" THEN "init" ELSE "while"
    /\ x0 \in IF nb = "slab" THEN X0Set(r0) ELSE X0Set(R)
    /\ T \in IF nb = "slab" THEN {tend} ELSE TSet
    /\ told = 0 /\ tnew = 0 /\ timestep = 0 /\ coef_told = 0
    /\ ci = EmptyCutInfo
    /\ gfu = IF nb = "slab" THEN [d \in FesDofs("st_fes") |-> GfZero]
                            ELSE [d \in FesDofs("VhTrace") |-> GfInit]
    /\ u_last = [v \in Verts |-> GfZero]
    /\ lset_approx = [v \in Verts |-> 0]
    /\ lset_p1 = [v \in Verts |-> [k \in TimeNodes |-> 0]]
    /\ lset_bottom = [v \in Verts |-> 0]
    /\ lset_top = [v \in Verts |-> 0]
    /\ ba_new_IF = {}
    /\ ba_band_IF = IF nb = "mol" THEN UpdateBand(0, x0, (4 * H) \div 5) ELSE {}
    /\ visband = [e \in Elements |-> IF e \in ba_band_IF THEN 1 ELSE 0]
    /\ active_dofs = {} /\ ba_facets = {}
    /\ definedon_hasneg = {} /\ definedon_patch = {}
    /\ ops = [o \in OpNames |-> 0]
    /\ lsetUpdates = 0 /\ ciUpdates = 0 /\ lsetWrittenSinceCi = FALSE

Count(o) == [ops EXCEPT ![o] = @ + 1]

SlabAfter_SkipFinalize(p) ==
    CASE p = "geom" -> "asm"
      [] p = "asm" -> "solve"
      [] p = "solve" -> "advance"
      [] p = "advance" -> "while"
      [] p = "final" -> "while"

SlabAfter_FinalizeFirst(p) ==
    CASE p = "geom" -> "asm"
      [] p = "asm" -> "solve"
      [] p = "solve" -> "final"
      [] p = "final" -> "advance"
      [] p = "advance" -> "while"

\* the body of the slab loop, statement after statement
SlabAfter(p) ==
    CASE p = "geom" -> "asm"
      [] p = "asm" -> "solve"
      [] p = "solve" -> "advance"
      [] p = "advance" -> "final"
      [] p = "final" -> "while"

\* u_last.Set(u_init)
SlabSetInitial ==
    /\ nb = "slab" /\ pc = "init"
    /\ u_last' = [v \in Verts |-> GfInit]
    /\ pc' = "while"
    /\ UNCHANGED <<loopFixed, told, tnew, timestep, coef_told, lsetVars,
                   markerVars, histVars, ci, gfu>>

\* while tend - told > delta_t/2:
SlabWhile ==
    /\ nb = "slab" /\ pc = "while"
    /\ pc' = IF SlabGuard(told) THEN "geom" ELSE "done"
    /\ UNCHANGED <<loopFixed, told, tnew, timestep, coef_told, lsetVars,
                   markerVars, histVars, ci, gfu, u_last>>

UpdateTimeSlabGeometry ==
    /\ nb = "slab" /\ pc = "geom"
    /\ lset_p1' = SpaceTimeInterpolateToP1(told, delta_t, x0)
    /\ lset_bottom' = RestrictGFInTime(lset_p1', 0)
    /\ lset_top' = RestrictGFInTime(lset_p1', 1)
    /\ ci' = CutInfoUpdateST(lset_p1')
    /\ ops' = Count("geom")
    /\ lsetUpdates' = lsetUpdates + 1
    /\ ciUpdates' = ciUpdates + 1
    /\ lsetWrittenSinceCi' = FALSE
    /\ pc' = SlabAfter("geom")
    /\ UNCHANGED <<loopFixed, told, tnew, timestep, coef_told, lset_approx,
                   markerVars, gfu, u_last>>

PatchNeighborTypes_CutAndOutside == <<"IF", "POS">>

\* GetFacetsWithNeighborTypes(mesh, a=ci.GetElementsOfType(HASNEG),
\*                                  b=ci.GetElementsOfType(IF))
PatchNeighborTypes == <<"HASNEG", "IF">>

SetDefinedOnElements_KeepFirst(current, ba) ==
    IF current = {} THEN ba ELSE current

\* integrator.SetDefinedOnElements(ba)
SetDefinedOnElements(current, ba) == ba

UpdateLinearSystems ==
    /\ nb = "slab" /\ pc = "asm"
    /\ ba_facets' =
          GetFacetsWithNeighborTypes(GetElementsOfType(ci, PatchNeighborTypes[1]),
                                     GetElementsOfType(ci, PatchNeighborTypes[2]))
    /\ definedon_hasneg' =
          SetDefinedOnElements(definedon_hasneg, GetElementsOfType(ci, "HASNEG"))
    /\ definedon_patch' = SetDefinedOnElements(definedon_patch, ba_facets')
    /\ ops' = Count("asm")
    /\ pc' = SlabAfter("asm")
    /\ UNCHANGED <<loopFixed, told, tnew, timestep, coef_told, lsetVars,
                   ba_new_IF, ba_band_IF, visband, active_dofs,
                   lsetUpdates, ciUpdates, lsetWrittenSinceCi, ci, gfu, u_last>>

SolveForTimeSlab ==
    /\ nb = "slab" /\ pc = "solve"
    /\ active_dofs' = GetDofsOfElements("st_fes", GetElementsOfType(ci, "HASNEG"))
    /\ gfu' = SolveOn("st_fes", active_dofs', ops["solve"] + 1)
    /\ ops' = Count("solve")
    /\ pc' = SlabAfter("solve")
    /\ UNCHANGED <<loopFixed, told, tnew, timestep, coef_told, lsetVars,
                   ba_new_IF, ba_band_IF, visband, ba_facets,
                   definedon_hasneg, definedon_patch,
                   lsetUpdates, ciUpdates, lsetWrittenSinceCi, ci, u_last>>

OnSolveFailure_Continue == "advance"

\* an exception raised by the solve is not caught: it leaves the loop
OnSolveFailure == "failed"

\* what the run holds when a solve fails
FailureAt ==
    [failed |-> TRUE, told |-> told, timestep |-> timestep, u_last |-> u_last,
     gfu |-> gfu, ops |-> ops]

\* SolveForTimeSlab, a.mat.Inverse(...) raises: gfu is not assigned
SolveForTimeSlabFails ==
    /\ nb = "slab" /\ pc = "solve"
    /\ active_dofs' = GetDofsOfElements("st_fes", GetElementsOfType(ci, "HASNEG"))
    /\ failure' = FailureAt
    /\ pc' = OnSolveFailure
    /\ UNCHANGED <<libVars, cutVars, extOther, nb, x0, T, told, tnew, timestep,
                   coef_told, lsetVars, ba_new_IF, ba_band_IF, visband,
                   ba_facets, definedon_hasneg, definedon_patch, histVars,
                   ci, gfu, u_last>>

\* told = told + delta_t; coef_told.Set(told)
SlabAdvance ==
    /\ nb = "slab" /\ pc = "advance"
    /\ told' = told + delta_t
    /\ coef_told' = told'
    /\ pc' = SlabAfter("advance")
    /\ UNCHANGED <<loopFixed, tnew, timestep, lsetVars, markerVars, histVars,
                   ci, gfu, u_last>>

FinalizeStep ==
    /\ nb = "slab" /\ pc = "final"
    /\ u_last' = [v \in Verts |-> gfu[<<"st", v, 1>>]]
    /\ ops' = Count("final")
    /\ pc' = SlabAfter("final")
    /\ UNCHANGED <<loopFixed, told, tnew, timestep, coef_told, lsetVars,
                   markerVars, lsetUpdates, ciUpdates, lsetWrittenSinceCi,
                   ci, gfu>>

\* while (told < T-dt/2):
MolWhile ==
    /\ nb = "mol" /\ pc = "while"
    /\ pc' = IF MolGuard(told, T) THEN "tnew" ELSE "done"
    /\ UNCHANGED <<loopFixed, told, tnew, timestep, coef_told, lsetVars,
                   markerVars, histVars, ci, gfu, u_last>>

\* tnew = told + dt; t.Set(tnew)
MolSetTime ==
    /\ nb = "mol" /\ pc = "tnew"
    /\ tnew' \in AddDt(told)
    /\ pc' = "interp1"
    /\ UNCHANGED <<loopFixed, told, timestep, coef_told, lsetVars,
                   markerVars, histVars, ci, gfu, u_last>>

\* InterpolateToP1(levelset_function(tnew),lset_approx), first call
MolInterpolate ==
    /\ nb = "mol" /\ pc = "interp1"
    /\ lset_approx' = InterpolateToP1(tnew, x0, 0)
    /\ lsetUpdates' = lsetUpdates + 1
    /\ lsetWrittenSinceCi' = TRUE
    /\ pc' = "cutinfo"
    /\ UNCHANGED <<loopFixed, told, tnew, timestep, coef_told,
                   lset_p1, lset_bottom, lset_top, markerVars, ops, ciUpdates,
                   ci, gfu, u_last>>

\* ci = CutInfo(mesh, lset_approx); ba_new_IF = ci.GetElementsOfType(IF)
MolCutInfo ==
    /\ nb = "mol" /\ pc = "cutinfo"
    /\ ci' = CutInfo(lset_approx)
    /\ ba_new_IF' = GetElementsOfType(ci', "IF")
    /\ ciUpdates' = ciUpdates + 1
    /\ lsetWrittenSinceCi' = FALSE
    /\ ops' = Count("geom")
    /\ pc' = "band"
    /\ UNCHANGED <<loopFixed, told, tnew, timestep, coef_told, lsetVars,
                   ba_band_IF, visband, active_dofs, ba_facets,
                   definedon_hasneg, definedon_patch, lsetUpdates, gfu, u_last>>

UpdateBandLeaves_GlobalField(lset, t, c0, offset) ==
    InterpolateToP1(t, c0, -offset)

\* what the global lset_approx holds after UpdateBand: the function
\* interpolates into its own field lset_approx_band, lset_approx keeps its
\* values
UpdateBandLeaves(lset, t, c0, offset) == lset

BitArrayClear_Keep(ba) == ba

\* ba.Clear(): no bit is set
BitArrayClear(ba) == {}

\* UpdateBand(levelset_function(tnew),vel*dt,ba_band_IF): the band is
\* cleared and then filled
MolUpdateBand ==
    /\ nb = "mol" /\ pc = "band"
    /\ ba_band_IF' = BitArrayClear(ba_band_IF) \cup UpdateBand(tnew, x0, vel * dt)
    /\ visband' = [e \in Elements |-> IF e \in ba_band_IF' THEN 1 ELSE 0]
    /\ lset_approx' = UpdateBandLeaves(lset_approx, tnew, x0, vel * dt)
    /\ pc' = "interp2"
    /\ UNCHANGED <<loopFixed, told, tnew, timestep, coef_told,
                   lset_p1, lset_bottom, lset_top,
                   ba_new_IF, active_dofs, ba_facets,
                   definedon_hasneg, definedon_patch, histVars, ci, gfu, u_last>>

\* InterpolateToP1(levelset_function(tnew),lset_approx), second call
MolInterpolateAgain ==
    /\ nb = "mol" /\ pc = "interp2"
    /\ lset_approx' = InterpolateToP1(tnew, x0, 0)
    /\ lsetUpdates' = lsetUpdates + 1
    /\ lsetWrittenSinceCi' = TRUE
    /\ pc' = "dofs"
    /\ UNCHANGED <<loopFixed, told, tnew, timestep, coef_told,
                   lset_p1, lset_bottom, lset_top, markerVars, ops, ciUpdates,
                   ci, gfu, u_last>>

\* active_dofs = BitArray(VhG.ndof); active_dofs.Clear();
\* active_dofs |= GetDofsOfElements(VhG,ba_band_IF)
MolActiveDofs ==
    /\ nb = "mol" /\ pc = "dofs"
    /\ active_dofs' =
          BitArrayClear(active_dofs) \cup GetDofsOfElements("VhTrace", ba_band_IF)
    /\ pc' = "asm"
    /\ UNCHANGED <<loopFixed, told, tnew, timestep, coef_told, lsetVars,
                   ba_new_IF, ba_band_IF, visband, ba_facets,
                   definedon_hasneg, definedon_patch, histVars, ci, gfu, u_last>>

\* a = RestrictedBilinearForm(...); a.Assemble(); f.Assemble()
MolAssemble ==
    /\ nb = "mol" /\ pc = "asm"
    /\ ops' = Count("asm")
    /\ pc' = "solve"
    /\ UNCHANGED <<loopFixed, told, tnew, timestep, coef_told, lsetVars,
                   markerVars, lsetUpdates, ciUpdates, lsetWrittenSinceCi,
                   ci, gfu, u_last>>

\* gfu.vec.data = a.mat.Inverse(active_dofs) * f.vec
MolSolve ==
    /\ nb = "mol" /\ pc = "solve"
    /\ gfu' = SolveOn("VhTrace", active_dofs, timestep + 1)
    /\ ops' = Count("solve")
    /\ pc' = "advance"
    /\ UNCHANGED <<loopFixed, told, tnew, timestep, coef_told, lsetVars,
                   markerVars, lsetUpdates, ciUpdates, lsetWrittenSinceCi,
                   ci, u_last>>

\* a.mat.Inverse(active_dofs, inverse="umfpack") raises: gfu is not assigned
MolSolveFails ==
    /\ nb = "mol" /\ pc = "solve"
    /\ failure' = FailureAt
    /\ pc' = OnSolveFailure
    /\ UNCHANGED <<libVars, cutVars, extOther, nb, x0, T, told, tnew, timestep,
                   coef_told, lsetVars, markerVars, histVars, ci, gfu, u_last>>

\* told = tnew; timestep += 1
MolAdvance ==
    /\ nb = "mol" /\ pc = "advance"
    /\ told' = tnew
    /\ timestep' = timestep + 1
    /\ pc' = "while"
    /\ UNCHANGED <<loopFixed, tnew, coef_told, lsetVars, markerVars, histVars,
                   ci, gfu, u_last>>

NextLoops ==
    \/ SlabSetInitial
    \/ SlabWhile
    \/ UpdateTimeSlabGeometry
    \/ UpdateLinearSystems
    \/ SolveForTimeSlab
    \/ SolveForTimeSlabFails
    \/ SlabAdvance
    \/ FinalizeStep
    \/ MolWhile
    \/ MolSetTime
    \/ MolInterpolate
    \/ MolCutInfo
    \/ MolUpdateBand
    \/ MolInterpolateAgain
    \/ MolActiveDofs
    \/ MolAssemble
    \/ MolSolve
    \/ MolSolveFails
    \/ MolAdvance

SpecLoops == InitLoops /\ [][NextLoops]_vars

\* -------------------------------------------------------------------------
\* SpecRefine: the cells that set a mesh deformation: the convergence loop
\* of intlset.ipynb (refinement levels, one pass per domain type) and the
\* last cell of CutFEM.ipynb.
\* -------------------------------------------------------------------------

\* refinements = 6
refinements == 6

\* for key in [NEG,POS,IF]
KeyOrder == <<"NEG", "POS", "IF">>

\* mesh.SetDeformation(deformation)
MeshSetDeformation(d) == TRUE

MeshUnsetDeformation_Keep(d) == d

\* mesh.UnsetDeformation()
MeshUnsetDeformation(d) == FALSE

\* what no step of SpecRefine changes
refFixed ==
    <<libVars, cutVars, ci, gfu, loopVars, failure, taskVars, geomVars,
      solveVars, prog>>

InitRefine ==
    /\ LibIdle /\ CutIdle /\ LoopIdle
    /\ ci = EmptyCutInfo
    /\ gfu = [d \in VhGDofs |-> "zero"]
    /\ prog \in {"convergence", "cutfem"}
    /\ pcR = IF prog = "convergence" THEN "for_reflevel" ELSE "cut_setdef"
    /\ reflevel = 0 /\ key = 1
    /\ deformed = FALSE /\ meshGen = 0 /\ errorsLen = 0
    /\ refinedDeformed = FALSE
    /\ failure = NoFailure
    /\ TaskIdle /\ GeomIdle /\ SolveIdle

\* for reflevel in range(refinements):
RefForLevel ==
    /\ prog = "convergence" /\ pcR = "for_reflevel"
    /\ pcR' = IF reflevel >= refinements THEN "end"
              ELSE IF reflevel > 0 THEN "refine" ELSE "calcdef"
    /\ key' = 1
    /\ UNCHANGED <<refFixed, reflevel, deformed, meshGen, errorsLen, refinedDeformed>>

\* if(reflevel > 0): mesh.Refine()
RefRefine ==
    /\ prog = "convergence" /\ pcR = "refine"
    /\ meshGen' = meshGen + 1
    /\ refinedDeformed' = (refinedDeformed \/ deformed)
    /\ pcR' = "calcdef"
    /\ UNCHANGED <<refFixed, reflevel, key, deformed, errorsLen>>

\* deformation = lsetmeshadap.CalcDeformation(levelset)
RefCalcDeformation ==
    /\ prog = "convergence" /\ pcR = "calcdef"
    /\ pcR' = "int_uncurved"
    /\ UNCHANGED <<refFixed, reflevel, key, deformed, meshGen, errorsLen, refinedDeformed>>

\* integrals_uncurved = Integrate(...)
RefIntegrateUncurved ==
    /\ prog = "convergence" /\ pcR = "int_uncurved"
    /\ pcR' = "setdef"
    /\ UNCHANGED <<refFixed, reflevel, key, deformed, meshGen, errorsLen, refinedDeformed>>

\* mesh.SetDeformation(deformation)
RefSetDeformation ==
    /\ prog = "convergence" /\ pcR = "setdef"
    /\ deformed' = MeshSetDeformation(deformed)
    /\ pcR' = "int_curved"
    /\ UNCHANGED <<refFixed, reflevel, key, meshGen, errorsLen, refinedDeformed>>

\* integrals_curved = Integrate(...)
RefIntegrateCurved ==
    /\ prog = "convergence" /\ pcR = "int_curved"
    /\ pcR' = "unsetdef"
    /\ UNCHANGED <<refFixed, reflevel, key, deformed, meshGen, errorsLen, refinedDeformed>>

\* mesh.UnsetDeformation()
RefUnsetDeformation ==
    /\ prog = "convergence" /\ pcR = "unsetdef"
    /\ deformed' = MeshUnsetDeformation(deformed)
    /\ pcR' = "append"
    /\ UNCHANGED <<refFixed, reflevel, key, meshGen, errorsLen, refinedDeformed>>

\* errors_curved[key].append(...); errors_uncurved[key].append(...)
RefAppendErrors ==
    /\ prog = "convergence" /\ pcR = "append"
    /\ errorsLen' = errorsLen + 1
    /\ IF key < Len(KeyOrder)
          THEN key' = key + 1 /\ pcR' = "calcdef"
          ELSE key' = key /\ pcR' = "refatlset"
    /\ UNCHANGED <<refFixed, reflevel, deformed, meshGen, refinedDeformed>>

\* RefineAtLevelSet(gf=lsetmeshadap.lset_p1)
RefRefineAtLevelSet ==
    /\ prog = "convergence" /\ pcR = "refatlset"
    /\ meshGen' = meshGen + 1
    /\ refinedDeformed' = (refinedDeformed \/ deformed)
    /\ reflevel' = reflevel + 1
    /\ pcR' = "for_reflevel"
    /\ UNCHANGED <<refFixed, key, deformed, errorsLen>>

\* deform = lsetad.CalcDeformation(levelset); mesh.SetDeformation(deform)
CutfemSetDeformation ==
    /\ prog = "cutfem" /\ pcR = "cut_setdef"
    /\ deformed' = MeshSetDeformation(deformed)
    /\ pcR' = "cut_solve"
    /\ UNCHANGED <<refFixed, reflevel, key, meshGen, errorsLen, refinedDeformed>>

\* a.Assemble(); f.Assemble(); SolveLinearSystem(); ComputeError()
CutfemSolveDeformed ==
    /\ prog = "cutfem" /\ pcR = "cut_solve"
    /\ pcR' = "cut_unsetdef"
    /\ UNCHANGED <<refFixed, reflevel, key, deformed, meshGen, errorsLen, refinedDeformed>>

\* mesh.UnsetDeformation()
CutfemUnsetDeformation ==
    /\ prog = "cutfem" /\ pcR = "cut_unsetdef"
    /\ deformed' = MeshUnsetDeformation(deformed)
    /\ pcR' = "end"
    /\ UNCHANGED <<refFixed, reflevel, key, meshGen, errorsLen, refinedDeformed>>

NextRefine ==
    \/ RefForLevel
    \/ RefRefine
    \/ RefCalcDeformation
    \/ RefIntegrateUncurved
    \/ RefSetDeformation
    \/ RefIntegrateCurved
    \/ RefUnsetDeformation
    \/ RefAppendErrors
    \/ RefRefineAtLevelSet
    \/ CutfemSetDeformation
    \/ CutfemSolveDeformed
    \/ CutfemUnsetDeformation

SpecRefine == InitRefine /\ [][NextRefine]_vars

\* -------------------------------------------------------------------------
\* SpecTasks: the calls of the slab loop inside "with TaskManager():".  The
\* main thread makes the calls one after the other; a call runs one task per
\* element on the worker threads and returns when all its tasks have
\* finished.
\* -------------------------------------------------------------------------

\* number of worker threads
MaxWorkers == 2

\* number of slabs of SpecTasks
MaxSlabs == 2

\* the calls of one slab that work element by element, in program order
CallSeq ==
    <<"SpaceTimeInterpolateToP1", "ci.Update", "GetFacetsWithNeighborTypes",
      "a.Assemble", "f.Assemble", "GetDofsOfElements">>

\* the call that writes the classification, and the calls that read it
Writers == {"ci.Update"}

Readers ==
    {"GetFacetsWithNeighborTypes", "a.Assemble", "f.Assemble", "GetDofsOfElements"}

CallReturns_NoJoin(todo, running) == todo = {}

\* a call returns to the main thread when all its tasks have finished
CallReturns(todo, running) == todo = {} /\ running = {}

taskFixed ==
    <<libVars, cutVars, ci, gfu, loopVars, failure, refVars, geomVars,
      solveVars>>

InitTasks ==
    /\ LibIdle /\ CutIdle /\ LoopIdle /\ RefIdle /\ GeomIdle /\ SolveIdle
    /\ ci = EmptyCutInfo
    /\ gfu = [d \in VhGDofs |-> "zero"]
    /\ failure = NoFailure
    /\ pcT = "call" /\ opT = 1 /\ slabT = 1
    /\ todoT = {} /\ runT = {}
    /\ ciStamp = [e \in Elements |-> 0]
    /\ staleRead = FALSE /\ overlap = FALSE

\* the main thread makes the next call
TaskCall ==
    /\ pcT = "call"
    /\ todoT' = Elements
    /\ pcT' = "wait"
    /\ UNCHANGED <<taskFixed, opT, slabT, runT, ciStamp, staleRead, overlap>>

\* a free worker starts the task of an element
TaskStart ==
    /\ pcT \in {"call", "wait"}
    /\ Cardinality(runT) < MaxWorkers
    /\ \E e \in todoT :
          LET call == CallSeq[opT]
          IN  /\ todoT' = todoT \ {e}
              /\ runT' = runT \cup {<<call, e>>}
              /\ staleRead' =
                    (staleRead \/ (call \in Readers /\ ciStamp[e] # slabT))
              /\ overlap' =
                    \/ overlap
                    \/ call \in Readers /\ \E t \in runT : t[1] \in Writers
                    \/ call \in Writers /\ \E t \in runT : t[1] \in Readers
    /\ UNCHANGED <<taskFixed, pcT, opT, slabT, ciStamp>>

\* a worker finishes its task; a task of ci.Update has marked its element
TaskFinish ==
    /\ \E t \in runT :
          /\ runT' = runT \ {t}
          /\ ciStamp' = IF t[1] \in Writers
                          THEN [ciStamp EXCEPT ![t[2]] = slabT]
                          ELSE ciStamp
    /\ UNCHANGED <<taskFixed, pcT, opT, slabT, todoT, staleRead, overlap>>

\* the call returns; the main thread goes on to the next call, after the
\* last call of a slab to the next slab
TaskReturn ==
    /\ pcT = "wait"
    /\ CallReturns(todoT, runT)
    /\ IF opT < Len(CallSeq)
          THEN opT' = opT + 1 /\ slabT' = slabT /\ pcT' = "call"
          ELSE /\ opT' = 1
               /\ slabT' = slabT + 1
               /\ pcT' = IF slabT < MaxSlabs THEN "call" ELSE "done"
    /\ UNCHANGED <<taskFixed, todoT, runT, ciStamp, staleRead, overlap>>

NextTasks ==
    \/ TaskCall
    \/ TaskStart
    \/ TaskFinish
    \/ TaskReturn

SpecTasks == InitTasks /\ [][NextTasks]_vars

(***************************************************************************)
(* The geometry calls on their own: UpdateBand of MoL_TraceFEM.ipynb and   *)
(* Integrate over a level-set domain of intlset.ipynb, for the P1          *)
(* interpolant of the distance to a circle whose centre lies at any        *)
(* position relative to the mesh.                                          *)
(***************************************************************************)

\* the largest offset of a band, in half time steps
MaxOffset == 3

\* offsets of UpdateBand: multiples of vel*dt/2, among them the offset
\* vel*dt of the time loop, and the offset 0.1 of the first call
OffsetSet == {k * ((vel * dt) \div 2) : k \in 0..MaxOffset} \cup {(4 * H) \div 5}

\* the measure of one element
ElMeasure == (H * H) \div 2

\* the part of an element cut off at the vertex with value a by the zero
\* line of the P1 function with the values a, b, c at the vertices
Corner(a, b, c) == (ElMeasure * a * a) \div ((a - b) * (a - c))

\* the measure of the part of element e where the P1 function lset is
\* negative
NegPart(e, lset) ==
    LET neg == {v \in ElVerts(e) : lset[v] < 0}
        pos == {v \in ElVerts(e) : lset[v] > 0}
        corner(v) ==
            LET w == CHOOSE w \in ElVerts(e) : w # v
                u == CHOOSE u \in ElVerts(e) : u # v /\ u # w
            IN  Corner(lset[v], lset[w], lset[u])
    IN  IF neg = {} THEN 0
        ELSE IF pos = {} THEN ElMeasure
        ELSE IF Cardinality(neg) = 1 THEN corner(CHOOSE v \in neg : TRUE)
        ELSE ElMeasure - corner(CHOOSE v \in pos : TRUE)

ElIntegral_Unrestricted(domain_type, e, lset) == ElMeasure

\* the contribution of element e to
\* Integrate(levelset_domain = {"levelset": lsetp1, "domain_type": key},
\* cf = 1, mesh): the measure of the part of e in the domain; the interface
\* part is counted as 1 where the zero line crosses the element and as 0
\* where it does not
ElIntegral(domain_type, e, lset) ==
    LET vals == {lset[v] : v \in ElVerts(e)}
    IN  CASE domain_type = "NEG" -> NegPart(e, lset)
          [] domain_type = "POS" -> ElMeasure - NegPart(e, lset)
          [] domain_type = "IF" ->
                IF SetMin(vals) < 0 /\ SetMax(vals) > 0 THEN 1 ELSE 0

\* the step after the integral over the domain of type domain_type
AfterKey(domain_type) ==
    CASE domain_type = "NEG" -> "POS"
      [] domain_type = "POS" -> "IF"
      [] domain_type = "IF" -> "done"

geomFixed ==
    <<libVars, cutVars, ci, gfu, loopVars, failure, refVars, taskVars,
      solveVars>>

InitGeom ==
    /\ LibIdle /\ CutIdle /\ LoopIdle /\ RefIdle /\ TaskIdle /\ SolveIdle
    /\ ci = EmptyCutInfo
    /\ gfu = [d \in VhGDofs |-> "zero"]
    /\ failure = NoFailure
    /\ argT \in TSet
    /\ argC0 \in X0Set(R)
    /\ argLset = InterpolateToP1(argT, argC0, 0)
    /\ argOffset \in OffsetSet
    /\ pcG = "band"
    /\ resBand \in SUBSET Elements
    /\ resVisband = [e \in Elements |-> IF e \in resBand THEN 1 ELSE 0]
    /\ resIntegral = [k \in {"NEG", "POS", "IF"} |-> [e \in Elements |-> 0]]

\* UpdateBand(levelset_function(t), offset, ba_band_IF)
CallUpdateBand ==
    /\ pcG = "band"
    /\ resBand' = BitArrayClear(resBand) \cup UpdateBand(argT, argC0, argOffset)
    /\ resVisband' = [e \in Elements |-> IF e \in resBand' THEN 1 ELSE 0]
    /\ pcG' = "NEG"
    /\ UNCHANGED <<geomFixed, argT, argC0, argLset, argOffset, resIntegral>>

\* Integrate over the domain of type key, element by element
CallIntegrate ==
    /\ pcG \in {"NEG", "POS", "IF"}
    /\ resIntegral' =
          [resIntegral EXCEPT
              ![pcG] = [e \in Elements |-> ElIntegral(pcG, e, argLset)]]
    /\ pcG' = AfterKey(pcG)
    /\ UNCHANGED <<geomFixed, argT, argC0, argLset, argOffset, resBand,
                   resVisband>>

NextGeom ==
    \/ CallUpdateBand
    \/ CallIntegrate

SpecGeom == InitGeom /\ [][NextGeom]_vars

(***************************************************************************)
(* CutFEM.ipynb with numbers: the classification, the free dofs, the       *)
(* boundary data, and the two cycles of assembly and solve: the first on   *)
(* the undeformed mesh, the second with the deformation set.  The          *)
(* assembled matrix is a unit lower triangular matrix in the order Rank of *)
(* the dofs, so that the inverse of every block of it is a matrix of       *)
(* integers; it couples the dofs of one component that share an element    *)
(* where the component is active, and the dofs of the two components on    *)
(* the cut elements (Nitsche terms).                                       *)
(***************************************************************************)
Rank(d) ==
    1000 * d[1] + (IF d[2][1] = "e" THEN 500 ELSE 0) + 20 * d[2][2] + d[2][3]

\* the elements that hold both dofs of a pair of dofs of Vh; the table is
\* a function of the mesh alone (@@ <<>> makes it an explicit function)
SharedElements ==
    [p \in FesDofs("Vh") \X FesDofs("Vh") |->
        {e \in Elements :
            p[1] \in ElDofs("Vh", e) /\ p[2] \in ElDofs("Vh", e)}] @@ <<>>

\* the elements over which a.Assemble() couples the dofs i and j
CouplingElements(i, j, c) ==
    {e \in SharedElements[<<i[2], j[2]>>] :
        /\ IF i[1] # j[1] THEN e \in c["IF"]
           ELSE IF i[1] = 0 THEN e \in c["HASNEG"]
           ELSE e \in c["HASPOS"]}

\* a.mat[i, j] as assembled with the classification c on the mesh state m
\* (m.deformed: the deformation was set)
AMat(i, j, c, m) ==
    IF i = j THEN 1
    ELSE IF Rank(j) < Rank(i)
         THEN Cardinality(CouplingElements(i, j, c))
                  * (IF m.deformed THEN 2 ELSE 1)
         ELSE 0

\* f.vec[i]
FVec(i, c, m) ==
    Cardinality({e \in Elements : i[2] \in ElDofs("Vh", e)
                    /\ e \in (IF i[1] = 0 THEN c["HASNEG"] ELSE c["HASPOS"])})
        * (IF m.deformed THEN 3 ELSE 2)

\* solution[1] at a boundary dof
BoundaryValue(d) == 1 + d[2][2]

\* the columns where row i of the matrix can hold an entry that is not zero
RowDofs ==
    [i \in VhGDofs |->
        {j \in VhGDofs : Rank(j) <= Rank(i)
                            /\ SharedElements[<<i[2], j[2]>>] # {}}] @@ <<>>

\* a.mat * g
MatVec(g, c, m) ==
    [i \in VhGDofs |->
        SumOver([j \in RowDofs[i] |-> AMat(i, j, c, m) * g[j]], RowDofs[i])]

\* the solution x of the block of the matrix on the dofs of todo and of x,
\* by substitution in the order Rank; x holds the part already computed
RECURSIVE Substitute(_, _, _, _, _)
Substitute(todo, x, r, c, m) ==
    IF todo = {} THEN x
    ELSE LET d == CHOOSE d \in todo : \A j \in todo : Rank(d) <= Rank(j)
             xd == r[d] - SumOver([j \in DOMAIN x |-> AMat(d, j, c, m) * x[j]],
                                  DOMAIN x)
         IN  Substitute(todo \ {d},
                        [j \in DOMAIN x \cup {d} |-> IF j = d THEN xd ELSE x[j]],
                        r, c, m)

\* a.mat.Inverse(free) * r: the solution of the block of the matrix on free,
\* zero outside free
InverseTimes(free, r, c, m) ==
    LET x == Substitute(free, <<>>, r, c, m)
    IN  [d \in VhGDofs |-> IF d \in free THEN x[d] ELSE 0]

SolveLinearSystemOn_NoHomogenization(g, free, c, m) ==
    LET rhs == [d \in VhGDofs |-> FVec(d, c, m)]
        update == InverseTimes(free, rhs, c, m)
    IN  [d \in VhGDofs |-> g[d] + update[d]]

SolveLinearSystemOn_AllDofs(g, free, c, m) ==
    LET av == MatVec(g, c, m)
        rhs == [d \in VhGDofs |-> FVec(d, c, m) - av[d]]
        update == InverseTimes(VhGDofs, rhs, c, m)
    IN  [d \in VhGDofs |-> g[d] + update[d]]

\* SolveLinearSystem(): rhs.data = f.vec - a.mat * gfu.vec;
\* update.data = a.mat.Inverse(freedofs) * rhs; gfu.vec.data += update
SolveLinearSystemOn(g, free, c, m) ==
    LET av == MatVec(g, c, m)
        rhs == [d \in VhGDofs |-> FVec(d, c, m) - av[d]]
        update == InverseTimes(free, rhs, c, m)
    IN  [d \in VhGDofs |-> g[d] + update[d]]

FreeDofsCycles_EveryCycle == {0, 1}

\* the cycles before which the cell that derives freedofs runs: it runs
\* once, before the first assembly
FreeDofsCycles == {0}

solveFixed ==
    <<libVars, loopVars, failure, taskVars, geomVars, prog, pcR, reflevel,
      key, meshGen, errorsLen, refinedDeformed>>

InitSolve ==
    /\ LibIdle /\ LoopIdle /\ RefIdle /\ TaskIdle /\ GeomIdle /\ SolveIdle
    /\ failure = NoFailure
    /\ pcC = "lset"
    /\ lsetp1 = [v \in Verts |-> 1]
    /\ ci = EmptyCutInfo
    /\ hasneg = {} /\ haspos = {}
    /\ freedofs = VhGFreeDofs
    /\ gfu = [d \in VhGDofs |-> 0]
    /\ solveMask = {}

\* lsetp1 = GridFunction(H1(mesh,order=1)); InterpolateToP1(levelset,lsetp1)
SolveInterpolateToP1 ==
    /\ pcC = "lset"
    /\ lsetp1' \in [Verts -> LsetVals]
    /\ pcC' = "cutinfo"
    /\ UNCHANGED <<solveFixed, deformed, solveVars, ci, hasneg, haspos,
                   freedofs, gfu, solveMask>>

\* ci = CutInfo(mesh, lsetp1)
SolveCutInfo ==
    /\ pcC = "cutinfo"
    /\ ci' = CutInfo(lsetp1)
    /\ pcC' = "freedofs"
    /\ UNCHANGED <<solveFixed, deformed, solveVars, lsetp1, hasneg, haspos,
                   freedofs, gfu, solveMask>>

\* hasneg, haspos, freedofs &= CompoundBitArray([...])
SolveFreeDofs ==
    /\ pcC = "freedofs"
    /\ cycle \in FreeDofsCycles
    /\ hasneg' = GetElementsOfType(ci, "HASNEG")
    /\ haspos' = GetElementsOfType(ci, "HASPOS")
    /\ freedofs' =
          RestrictFreeDofs(VhGFreeDofs,
              CompoundBitArray(GetDofsOfElements("Vh", hasneg'),
                               GetDofsOfElements("Vh", haspos')))
    /\ maskCycle' = cycle
    /\ pcC' = IF cycle = 0 THEN "bnd" ELSE "assemble"
    /\ UNCHANGED <<solveFixed, deformed, cycle, asm, gfuBefore, solveLog,
                   lsetp1, ci, gfu, solveMask>>

\* gfu = GridFunction(VhG); gfu.components[1].Set(solution[1], BND)
SolveSetBoundary ==
    /\ pcC = "bnd"
    /\ gfu' = [d \in VhGDofs |->
                  IF d[1] = 1 /\ d[2] \in DirichletDofs
                  THEN BoundaryValue(d) ELSE 0]
    /\ pcC' = "assemble"
    /\ UNCHANGED <<solveFixed, deformed, solveVars, lsetp1, ci, hasneg,
                   haspos, freedofs, solveMask>>

\* a.Assemble(); f.Assemble()
SolveAssemble ==
    /\ pcC = "assemble"
    /\ asm' = [n |-> asm.n + 1, deformed |-> deformed]
    /\ pcC' = "solve"
    /\ UNCHANGED <<solveFixed, deformed, cycle, maskCycle, gfuBefore,
                   solveLog, lsetp1, ci, hasneg, haspos, freedofs, gfu,
                   solveMask>>

\* SolveLinearSystem(); after the first solve the last cell follows, after
\* the second mesh.UnsetDeformation()
SolveLinearSystem ==
    /\ pcC = "solve"
    /\ gfuBefore' = gfu
    /\ solveMask' = freedofs
    /\ gfu' = SolveLinearSystemOn(gfu, freedofs, ci, asm)
    /\ solveLog' =
          Append(solveLog, [cycle |-> cycle, maskCycle |-> maskCycle,
                            mask |-> freedofs, ci |-> ci])
    /\ cycle' = cycle + 1
    /\ pcC' = IF cycle = 0 THEN "setdef" ELSE "unsetdef"
    /\ UNCHANGED <<solveFixed, deformed, maskCycle, asm, lsetp1, ci, hasneg,
                   haspos, freedofs>>

\* lsetad.CalcDeformation(levelset); mesh.SetDeformation(deform)
SolveSetDeformation ==
    /\ pcC = "setdef"
    /\ deformed' = MeshSetDeformation(deformed)
    /\ pcC' = IF cycle \in FreeDofsCycles THEN "freedofs" ELSE "assemble"
    /\ UNCHANGED <<solveFixed, solveVars, lsetp1, ci, hasneg, haspos,
                   freedofs, gfu, solveMask>>

\* mesh.UnsetDeformation()
SolveUnsetDeformation ==
    /\ pcC = "unsetdef"
    /\ deformed' = MeshUnsetDeformation(deformed)
    /\ pcC' = "done"
    /\ UNCHANGED <<solveFixed, solveVars, lsetp1, ci, hasneg, haspos,
                   freedofs, gfu, solveMask>>

NextSolve ==
    \/ SolveInterpolateToP1
    \/ SolveCutInfo
    \/ SolveFreeDofs
    \/ SolveSetBoundary
    \/ SolveAssemble
    \/ SolveLinearSystem
    \/ SolveSetDeformation
    \/ SolveUnsetDeformation

SpecSolve == InitSolve /\ [][NextSolve]_vars

(***************************************************************************)
(* Claims on the classification and the dof masks (SpecCut, SpecLib).      *)
(***************************************************************************)
\* ci has been constructed on the current lsetp1
CiBuilt == pcC \in {"freedofs", "assemble", "solve", "done"}

\* hasneg, haspos and freedofs have been computed from ci
MasksBuilt == pcC \in {"assemble", "solve", "done"}

AllNegative(e) == \A v \in ElVerts(e) : lsetp1[v] < 0

AllPositive(e) == \A v \in ElVerts(e) : lsetp1[v] > 0

SomeNegative(e) == \E v \in ElVerts(e) : lsetp1[v] < 0

SomePositive(e) == \E v \in ElVerts(e) : lsetp1[v] > 0

HasZero(e) == \E v \in ElVerts(e) : lsetp1[v] = 0

OneTag(e) == Cardinality({tag \in {"NEG", "POS", "IF"} : e \in ci[tag]}) = 1

\* the sign of x when a zero is counted with the sign z
SignAs(x, z) == IF x < 0 THEN -1 ELSE IF x > 0 THEN 1 ELSE z

C3_DofsOfElements ==
    "dofs" \in called =>
        /\ resDofs \subseteq FesDofs(argFes)
        /\ \A d \in FesDofs(argFes) :
              (d \in resDofs) <=> (\E e \in argS : d \in ElDofs(argFes, e))
        /\ \A e \in Elements :
              (\A d \in ElDofs(argFes, e) : \A e2 \in argS : d \notin ElDofs(argFes, e2))
                  => ElDofs(argFes, e) \cap resDofs = {}

\* C3, witness: a call with a proper non-empty subset S in which a marked dof
\* is shared with an element outside S and some dof stays unmarked
C3_Witness ==
    /\ "dofs" \in called
    /\ argS # {} /\ argS # Elements
    /\ resDofs # FesDofs(argFes)
    /\ \E e \in Elements \ argS : ElDofs(argFes, e) \cap resDofs # {}

\* C4: the free-dof mask handed to the linear solve is a subset of the
\* boundary-condition mask of VhG: no Dirichlet dof becomes free
C4_FreeDofsSubset ==
    MasksBuilt =>
        /\ freedofs \subseteq VhGFreeDofs
        /\ \A d \in freedofs : d[2] \notin DirichletDofs
        /\ pcC = "done" =>
              /\ solveMask \subseteq VhGFreeDofs
              /\ \A d \in VhGDofs : d[2] \in DirichletDofs => gfu[d] # "sol"

\* C4, witness: a solve in which an active element has Dirichlet dofs and
\* the mask is neither empty nor the whole boundary-condition mask
C4_Witness ==
    /\ pcC = "done"
    /\ solveMask # {} /\ solveMask # VhGFreeDofs
    /\ \E e \in hasneg : ElDofs("Vh", e) \cap DirichletDofs # {}

C6_FacetsWithNeighborTypes ==
    "facets" \in called =>
        /\ \A f \in Facets :
              (f \in resFacets) <=>
                  \E e1 \in argA : \E e2 \in argB :
                      e1 # e2 /\ FacetEls(f) = {e1, e2}
        /\ resFacets = GetFacetsWithNeighborTypes(argB, argA)
        /\ resFacets \cap BndFacets = {}

\* C6, witness: a call with a # b that returns a facet whose lower neighbour
\* is only in b, while an element of both sets has a boundary facet
C6_Witness ==
    /\ "facets" \in called
    /\ argA # argB
    /\ \E f \in resFacets :
          SetMin(FacetEls(f)) \in argB \ argA /\ SetMax(FacetEls(f)) \in argA \ argB
    /\ \E f \in BndFacets : FacetEls(f) \subseteq (argA \cap argB)

InSlabBody == nb = "slab" /\ pc \in {"geom", "asm", "solve", "advance"}

InMolBody ==
    /\ nb = "mol"
    /\ pc \in {"tnew", "interp1", "cutinfo", "band", "interp2", "dofs", "asm",
               "solve", "advance"}

\* C7: in every time slab the geometry update, the assembly, the solve and
\* the finalization run once each and in this order, and the geometry update
\* of the next slab starts only after the finalization of the current one:
\* the four counts never differ by more than one, never overtake each other,
\* and at the loop head each equals the number of slabs done.
C7_SlabOrder ==
    nb = "slab" =>
        /\ ops["geom"] >= ops["asm"]
        /\ ops["asm"] >= ops["solve"]
        /\ ops["solve"] >= ops["final"]
        /\ ops["final"] >= ops["geom"] - 1
        /\ pc \in {"while", "done"} =>
               \A o \in OpNames : ops[o] * delta_t = told

\* the third slab has got its geometry, after two slabs were finalized
C7_Witness ==
    /\ nb = "slab" /\ pc = "asm"
    /\ ops["geom"] = 3 /\ ops["final"] = 2

\* C8: a slab or step is started only while the remaining time exceeds half
\* a time step, and a loop that has ended has at most half a step left.
C8_HalfStepGuard ==
    /\ InSlabBody => 2 * (tend - told) > delta_t
    /\ InMolBody => 2 * (T - told) > dt
    /\ (nb = "slab" /\ pc = "done") => 2 * (tend - told) <= delta_t
    /\ (nb = "mol" /\ pc = "done") => 2 * (T - told) <= dt

\* the MoL loop has ended after some steps with a positive rest of time
C8_Witness ==
    /\ nb = "mol" /\ pc = "done"
    /\ timestep >= 1
    /\ T - told > 0

\* C9 (amended): when the end time is N time steps, each loop ends after
\* exactly N steps; the slab loop adds exactly and ends with told = tend; the
\* MoL loop ends with timestep = N, and told equals T and timestep*dt up to
\* the accumulated rounding of the additions, which is less than half a step.
C9_StepCount ==
    /\ (nb = "slab" /\ pc = "while") => told = ops["final"] * delta_t
    /\ (nb = "slab" /\ pc = "done") =>
           /\ ops["final"] * delta_t = tend
           /\ told = tend
    /\ (nb = "mol" /\ pc \in {"while", "done"}) =>
           Abs(told - timestep * dt) <= timestep * MaxRoundErr
    /\ (nb = "mol" /\ pc = "done" /\ T % dt = 0) =>
           /\ timestep * dt = T
           /\ 2 * Abs(told - T) < dt

\* the MoL loop has ended after MaxSteps steps with told off the end time
C9_Witness ==
    /\ nb = "mol" /\ pc = "done"
    /\ T = MaxSteps * dt
    /\ timestep = MaxSteps
    /\ told # T

\* C9 as stated: on exit told equals the end time, and in the MoL loop
\* told = timestep*dt
C9_Original ==
    /\ (nb = "slab" /\ pc = "done") =>
           /\ ops["final"] * delta_t = tend
           /\ told = tend
    /\ (nb = "mol" /\ pc = "done" /\ T % dt = 0) =>
           /\ timestep * dt = T
           /\ told = T
           /\ told = timestep * dt

\* C10 as stated: in both loops every update of the level-set field is
\* followed by one classification before any assembly or solve, so that no
\* assembly or solve runs on a classification older than the field.
C10_ClassificationFollowsUpdate ==
    (nb \in {"slab", "mol"} /\ pc \in {"asm", "solve"}) =>
        /\ ~lsetWrittenSinceCi
        /\ lsetUpdates = ciUpdates

\* C11: no refinement of the mesh runs while a deformation is set: in the
\* convergence loop the deformation is unset whenever mesh.Refine() or
\* RefineAtLevelSet is about to run, for every key and refinement level, and
\* both cells end with the deformation unset.
C11_NoRefineWhileDeformed ==
    /\ ~refinedDeformed
    /\ pcR \in {"refine", "refatlset", "for_reflevel", "end"} => ~deformed

\* C11, witness: the loop has refined the mesh after deformations were set
\* and unset for all three keys of two levels
C11_Witness ==
    /\ prog = "convergence" /\ pcR = "calcdef"
    /\ reflevel = 2 /\ meshGen = 4 /\ errorsLen = 2 * Len(KeyOrder)
    /\ ~deformed

\* the slab that is being computed (1, 2, ...)
SlabNo == ops["geom"]

\* the restriction of the space-time solution gfu to reference time 1
TraceAtTop == [v \in Verts |-> gfu[<<"st", v, 1>>]]

\* C12: when the right-hand side of slab n is assembled and until its solve,
\* u_last is the initial data (n = 1) or the restriction at reference time 1
\* of the solution of slab n-1 (n >= 2); u_last is written only by the
\* initial Set and by FinalizeStep.
C12_BottomData ==
    /\ [](  (nb = "slab" /\ pc \in {"asm", "solve"}) =>
                IF SlabNo = 1
                  THEN u_last = [v \in Verts |-> GfInit]
                  ELSE /\ u_last = TraceAtTop
                       /\ \A d \in FesDofs("st_fes") :
                             gfu[d] \in {GfZero, GfSol(SlabNo - 1)}  )
    /\ [][u_last' # u_last => (nb = "slab" /\ pc \in {"init", "final"})]_vars

\* C12, witness: the third slab is assembled with a trace of the second
\* slab's solution that is its solution at some vertices and zero at others
C12_Witness ==
    /\ nb = "slab" /\ pc = "solve" /\ SlabNo = 3
    /\ \E v \in Verts : u_last[v] = GfSol(2)
    /\ \E v \in Verts : u_last[v] = GfZero

\* the nodal values of the level set of intlset.ipynb at the instant t
LevelsetAt(t) == [v \in Verts |-> levelset(t, x0, X(v))]

\* C13: the instant at reference time 1 of slab n is the instant at
\* reference time 0 of slab n+1: each slab starts at told = coef_told = the
\* end of the slab before, the top level set of slab n is the bottom level
\* set of slab n+1, and the trace of slab n at reference time 1 is the
\* bottom data u_last of slab n+1, unchanged.
C13_TraceRoundTrip ==
    nb = "slab" =>
        /\ pc \in {"while", "geom", "asm", "solve"} =>
              /\ coef_told = told
              /\ told = ops["final"] * delta_t
        /\ (pc = "geom" /\ SlabNo >= 1) => lset_top = LevelsetAt(told)
        /\ pc \in {"asm", "solve"} =>
              /\ lset_bottom = LevelsetAt(told)
              /\ lset_top = LevelsetAt(told + delta_t)
              /\ SlabNo >= 2 => u_last = TraceAtTop

\* C13, witness: slab 2 is assembled, where the interface has moved during
\* slab 1 and the trace of slab 1 is not constant
C13_Witness ==
    /\ nb = "slab" /\ pc = "asm" /\ SlabNo = 2
    /\ lset_bottom # lset_top
    /\ \E v, w \in Verts : u_last[v] # u_last[w]

\* C14: a failed linear solve leaves the time loop: after it no geometry
\* update, assembly, solve or finalization runs, and told, the step counter
\* and the stored solution (u_last, gfu) keep the values they had when the
\* solve failed.
C14_SolveFailureIsFatal ==
    failure.failed =>
        /\ pc = "failed"
        /\ told = failure.told
        /\ timestep = failure.timestep
        /\ u_last = failure.u_last
        /\ gfu = failure.gfu
        /\ ops = failure.ops

\* C14, witness: the solve of the third slab, or of the third MoL step, has
\* failed
C14_Witness ==
    /\ failure.failed /\ pc = "failed"
    /\ \/ nb = "slab" /\ ops["solve"] = 2 /\ ops["asm"] = 3
       \/ nb = "mol" /\ timestep = 2

\* C16: when the slab loop has assembled, the volume integrators are defined
\* on exactly the HASNEG elements and the patch integrator on exactly the
\* facets between a HASNEG and an IF element of the classification that
\* ci.Update produced from the level set of the same slab.
C16_MarkersOfThisSlab ==
    (nb = "slab" /\ pc = "solve") =>
        /\ lset_p1 = SpaceTimeInterpolateToP1(told, delta_t, x0)
        /\ ci = CutInfoUpdateST(lset_p1)
        /\ definedon_hasneg = ci["HASNEG"]
        /\ definedon_patch = ba_facets
        /\ \A f \in Facets :
              (f \in definedon_patch) <=>
                  \E e1 \in ci["HASNEG"] : \E e2 \in ci["IF"] :
                      e1 # e2 /\ FacetEls(f) = {e1, e2}

\* C16, witness: a later slab is assembled on markers that are neither empty
\* nor the whole mesh
C16_Witness ==
    /\ nb = "slab" /\ pc = "solve" /\ SlabNo >= 2
    /\ definedon_hasneg # {} /\ definedon_hasneg # Elements
    /\ definedon_patch # {}

\* C15: inside the TaskManager region the classification update of a slab
\* has completed before any task of a call that reads the classification
\* starts, and no reading task runs together with a task of ci.Update, for
\* every interleaving of the worker tasks: all tasks in execution belong to
\* the current call.
C15_UpdateBeforeReads ==
    /\ ~staleRead
    /\ ~overlap
    /\ pcT \in {"call", "wait"} => \A t \in runT : t[1] = CallSeq[opT]
    /\ pcT = "done" => runT = {}
    /\ (\E t \in runT : t[1] \in Readers) =>
           \A e \in Elements : ciStamp[e] = slabT

\* C15, witness: in the second slab two tasks of a.Assemble run at the same
\* time while a third has not started
C15_Witness ==
    /\ slabT = 2
    /\ Cardinality(runT) = 2
    /\ \A t \in runT : t[1] = "a.Assemble"
    /\ todoT # {}

\* C17 (amended): the ghost-penalty facets are exactly the interior facets
\* with one neighbour HASNEG and the other neighbour IF: both neighbours lie
\* in the cut/active region, at least one is cut, and no facet with a
\* fully-outside (POS) neighbour is among them.
C17_PatchFacets ==
    (nb = "slab" /\ pc = "solve") =>
        /\ \A f \in Facets :
              (f \in definedon_patch) <=>
                  /\ Cardinality(FacetEls(f)) = 2
                  /\ \E e1 \in FacetEls(f) :
                        /\ e1 \in ci["HASNEG"]
                        /\ (FacetEls(f) \ {e1}) \subseteq ci["IF"]
        /\ \A f \in definedon_patch :
              /\ FacetEls(f) \cap ci["POS"] = {}
              /\ FacetEls(f) \subseteq (ci["HASNEG"] \cup ci["IF"])
              /\ FacetEls(f) \cap ci["IF"] # {}

\* C17, witness: an assembled slab with a ghost-penalty facet, both of whose
\* neighbours are active, and a facet between a cut and a fully-outside
\* element that is no ghost-penalty facet
C17_Witness ==
    /\ nb = "slab" /\ pc = "solve"
    /\ \E f \in definedon_patch : FacetEls(f) \subseteq ci["HASNEG"]
    /\ \E g \in Facets \ definedon_patch :
          /\ FacetEls(g) \cap ci["IF"] # {}
          /\ FacetEls(g) \cap ci["POS"] # {}

\* C17 as stated: every ghost-penalty facet has one neighbour in the
\* cut/active region and the other neighbour fully outside it
C17_Original ==
    (nb = "slab" /\ pc = "solve") =>
        \A f \in definedon_patch :
            \E e1, e2 \in FacetEls(f) :
                /\ e1 \in (ci["HASNEG"] \cup ci["IF"])
                /\ e2 \notin (ci["HASNEG"] \cup ci["IF"])

\* C19: in every MoL step, once UpdateBand has run with the offset vel*dt,
\* the elements cut by the current P1 level set lie in the band, and at the
\* assembly the dofs of every element an integrator is defined on (the cut
\* elements and the band, the element restriction of the form) belong to
\* active_dofs.
C19_CutElementsInBand ==
    nb = "mol" =>
        /\ pc \in {"interp2", "dofs", "asm", "solve", "advance"} =>
              /\ ba_new_IF = CutInfo(lset_approx)["IF"]
              /\ ba_new_IF \subseteq ba_band_IF
        /\ pc \in {"asm", "solve"} =>
              /\ active_dofs = UNION {ElDofs("VhTrace", e) : e \in ba_band_IF}
              /\ \A e \in ba_new_IF \cup ba_band_IF :
                    ElDofs("VhTrace", e) \subseteq active_dofs

\* C19, witness: a later step is assembled on a band that holds a cut
\* element and an uncut one and misses an element
C19_Witness ==
    /\ nb = "mol" /\ pc = "asm" /\ timestep >= 1
    /\ ba_new_IF # {}
    /\ ba_band_IF \ ba_new_IF # {}
    /\ ba_band_IF # Elements

(***************************************************************************)
(* C18: an element without sign change and without zero vertex contributes *)
(* its full measure to the NEG integral of the constant 1 if it is NEG and *)
(* nothing if it is POS, symmetrically for the POS integral, and nothing   *)
(* to the IF integral; the NEG and POS integrals of 1 over any set of such *)
(* elements sum to the measure of the set.                                 *)
(***************************************************************************)
NegElements(lset) == {e \in Elements : \A v \in ElVerts(e) : lset[v] < 0}

PosElements(lset) == {e \in Elements : \A v \in ElVerts(e) : lset[v] > 0}

C18_UncutIntegrals ==
    pcG = "done" =>
        /\ \A e \in NegElements(argLset) :
              /\ resIntegral["NEG"][e] = ElMeasure
              /\ resIntegral["POS"][e] = 0
              /\ resIntegral["IF"][e] = 0
        /\ \A e \in PosElements(argLset) :
              /\ resIntegral["POS"][e] = ElMeasure
              /\ resIntegral["NEG"][e] = 0
              /\ resIntegral["IF"][e] = 0
        /\ \A S \in SUBSET (NegElements(argLset) \cup PosElements(argLset)) :
              SumOver(resIntegral["NEG"], S) + SumOver(resIntegral["POS"], S)
                  = Cardinality(S) * ElMeasure

\* all three integrals are computed, the mesh has an uncut element and an
\* element that the zero line divides into two parts
C18_Witness ==
    /\ pcG = "done"
    /\ NegElements(argLset) \cup PosElements(argLset) # {}
    /\ \E e \in Elements :
          /\ resIntegral["NEG"][e] \in 1..(ElMeasure - 1)
          /\ resIntegral["IF"][e] > 0

(***************************************************************************)
(* C20: UpdateBand(lset, offset, ba) sets ba to the elements on which the  *)
(* P1 interpolant of lset takes a value in [-offset, offset], which are    *)
(* the elements that are POS or IF for the interpolant of lset + offset    *)
(* and NEG or IF for the interpolant of lset - offset, whatever ba held    *)
(* before; visband is 1 on these elements and 0 on all others.             *)
(***************************************************************************)
HasValueIn(e, lset, lo, hi) ==
    /\ SetMin({lset[v] : v \in ElVerts(e)}) <= hi
    /\ SetMax({lset[v] : v \in ElVerts(e)}) >= lo

Shifted(lset, offset) == [v \in Verts |-> lset[v] + offset]

LsetChangeAtMost(bound) ==
    \A v \in Verts :
        Abs(InterpolateToP1(tnew, x0, 0)[v] - InterpolateToP1(told, x0, 0)[v])
            <= bound

C21_SurfaceInOldBand ==
    (nb = "mol" /\ timestep >= 1 /\ LsetChangeAtMost(vel * dt)) =>
        /\ pc = "band" => ba_new_IF \subseteq ba_band_IF
        /\ pc \in {"band", "interp2", "dofs", "asm", "solve"} =>
              \A e \in ba_new_IF : \A d \in ElDofs("VhTrace", e) :
                  gfu[d] = GfSol(timestep)

\* a later step whose surface cuts an element that the surface of the step
\* before did not cut, while the band of the step before is not the whole
\* mesh
C21_Witness ==
    /\ nb = "mol" /\ pc = "asm" /\ timestep >= 1
    /\ LsetChangeAtMost(vel * dt)
    /\ ba_new_IF \ CutInfo(InterpolateToP1(told, x0, 0))["IF"] # {}
    /\ \E d \in FesDofs("VhTrace") : gfu[d] # GfSol(timestep)

(***************************************************************************)
(* C22: the band and the mask of the active dofs of a step are functions   *)
(* of the level set and the offset of that step alone: after UpdateBand    *)
(* the band is the band of the level set at tnew, after the mask is built  *)
(* it holds the dofs of the elements of that band (in the slab loop: of    *)
(* the HASNEG elements of the slab's classification) and no others,        *)
(* whatever the band and the mask held in the steps before.                *)
(***************************************************************************)
C22_MasksFromScratch ==
    /\ (nb = "mol" /\ pc \in {"interp2", "dofs", "asm", "solve", "advance"}) =>
          /\ ba_band_IF = UpdateBand(tnew, x0, vel * dt)
          /\ \A e \in Elements : visband[e] = IF e \in ba_band_IF THEN 1 ELSE 0
    /\ (nb = "mol" /\ pc \in {"asm", "solve", "advance"}) =>
          active_dofs =
              GetDofsOfElements("VhTrace", UpdateBand(tnew, x0, vel * dt))
    /\ (nb = "slab" /\ pc = "advance") =>
          active_dofs =
              GetDofsOfElements("st_fes",
                  CutInfoUpdateST(SpaceTimeInterpolateToP1(told, delta_t, x0))["HASNEG"])

\* a later step at assembly whose band has lost an element of the band of
\* the step before, and whose mask has lost a dof that was solved for in the
\* step before
C22_Witness ==
    /\ nb = "mol" /\ pc = "asm" /\ timestep >= 1
    /\ UpdateBand(told, x0, vel * dt) \ ba_band_IF # {}
    /\ \E d \in FesDofs("VhTrace") :
          gfu[d] = GfSol(timestep) /\ d \notin active_dofs

(***************************************************************************)
(* C23: the mask of a solve is derived from the classification that is     *)
(* current at that solve.  In CutFEM.ipynb freedofs is derived once,       *)
(* before the first assembly, and both solves, on the undeformed and on    *)
(* the deformed mesh, use it; the classification is the same at both.      *)
(***************************************************************************)
MaskOf(c) ==
    RestrictFreeDofs(VhGFreeDofs,
        CompoundBitArray(GetDofsOfElements("Vh", GetElementsOfType(c, "HASNEG")),
                         GetDofsOfElements("Vh", GetElementsOfType(c, "HASPOS"))))

C23_MaskOfCurrentClassification ==
    \A k \in DOMAIN solveLog :
        /\ solveLog[k].cycle = k - 1
        /\ solveLog[k].ci = CutInfo(lsetp1)
        /\ solveLog[k].mask = MaskOf(solveLog[k].ci)
        /\ solveLog[k].maskCycle = 0

\* both solves are done with a mask that leaves out a dof of the space and
\* the second solve has changed gfu
C23_Witness ==
    /\ Len(solveLog) = 2
    /\ solveLog[2].mask # {}
    /\ solveLog[2].mask # VhGFreeDofs
    /\ gfu # gfuBefore

\* C23 as stated: every solve uses a mask that was derived within its own
\* cycle of assembly and solve
C23_Original ==
    \A k \in DOMAIN solveLog : solveLog[k].maskCycle = solveLog[k].cycle

(***************************************************************************)
(* C25: SolveLinearSystem changes gfu at the dofs of freedofs only: at     *)
(* every other dof, the boundary values set before the assembly and the    *)
(* inactive dofs of both components, gfu holds after the call what it held *)
(* before.                                                                 *)
(***************************************************************************)
C25_SolveFrame ==
    /\ solveLog # <<>> =>
          /\ solveMask = solveLog[Len(solveLog)].mask
          /\ \A d \in VhGDofs \ solveMask : gfu[d] = gfuBefore[d]
          /\ \A d \in VhGDofs \ solveMask :
                gfu[d] = IF d[1] = 1 /\ d[2] \in DirichletDofs
                         THEN BoundaryValue(d) ELSE 0
    /\ [][pcC = "solve" =>
             \A d \in VhGDofs \ freedofs : gfu'[d] = gfu[d]]_vars

\* a solve that has changed a free dof while a free dof of the space is
\* inactive and boundary values are set
C25_Witness ==
    /\ Len(solveLog) = 2
    /\ \E d \in solveMask : gfu[d] # gfuBefore[d]
    /\ VhGFreeDofs \ solveMask # {}
    /\ \E d \in VhGDofs \ solveMask : gfu[d] # 0

(***************************************************************************)
(* C26: what SolveLinearSystem leaves in gfu does not depend on the values *)
(* gfu held at the free dofs before the call, and a second call with the   *)
(* same matrix and vector leaves gfu as it is; so the second solve, which  *)
(* starts from the solution of the first, returns what a solve from the    *)
(* boundary data alone returns for the matrix of the deformed mesh.        *)
(***************************************************************************)
\* g with the values at the dofs of free replaced by val
WithFreeValues(g, free, val) ==
    [d \in VhGDofs |-> IF d \in free THEN val[d] ELSE g[d]]

NegAtLevel(lset) == {e \in Elements : \E v \in ElVerts(e) : lset[v] < 0}

C28_EndsInsideHasNeg ==
    (nb = "slab" /\ pc \in {"asm", "solve", "advance"}) =>
        /\ lset_bottom = [v \in Verts |-> lset_p1[v][0]]
        /\ lset_top = [v \in Verts |-> lset_p1[v][1]]
        /\ NegAtLevel(lset_bottom) \cup NegAtLevel(lset_top) \subseteq ci["HASNEG"]
        /\ pc \in {"solve", "advance"} =>
              NegAtLevel(lset_bottom) \cup NegAtLevel(lset_top)
                  \subseteq definedon_hasneg

\* a slab at its solve with an element that has a negative value at the top
\* and none at the bottom, and an element that is not HASNEG
C28_Witness ==
    /\ nb = "slab" /\ pc = "solve"
    /\ NegAtLevel(lset_top) \ NegAtLevel(lset_bottom) # {}
    /\ ci["HASNEG"] # Elements

(***************************************************************************)
(* C29: while UpdateTimeSlabGeometry, UpdateLinearSystems and              *)
(* SolveForTimeSlab of a slab run, the parameter coef_told and the         *)
(* variable told both hold the start time of the slab; while FinalizeStep  *)
(* runs both hold its end time.                                            *)
(***************************************************************************)
C29_ParameterFollowsTold ==
    nb = "slab" =>
        /\ pc \in {"geom", "asm", "solve"} =>
              /\ coef_told = told
              /\ told = ops["final"] * delta_t
        /\ pc = "final" =>
              /\ coef_told = told
              /\ told = (ops["final"] + 1) * delta_t
              /\ lset_top = [v \in Verts |-> levelset(told, x0, X(v))]

\* FinalizeStep of a slab after the first is about to run
C29_Witness ==
    /\ nb = "slab" /\ pc = "final"
    /\ ops["final"] >= 1
    /\ coef_told = (ops["final"] + 1) * delta_t

(***************************************************************************)
(* C30: in every step of the moving-surface loop the set ba_new_IF of the  *)
(* interface integrators is the set of IF elements of the nodal values     *)
(* that lset_approx holds at the assembly: the second InterpolateToP1 of   *)
(* the step writes the values lset_approx holds already, and UpdateBand    *)
(* changes none of lset_approx, ci and ba_new_IF.                          *)
(***************************************************************************)
C30_CutSetOfAssembledLevelSet ==
    /\ (nb = "mol" /\ pc \in {"asm", "solve"}) =>
          /\ ba_new_IF = GetElementsOfType(CutInfo(lset_approx), "IF")
          /\ ba_new_IF = GetElementsOfType(ci, "IF")
    /\ [][(nb = "mol" /\ pc \in {"band", "interp2"}) =>
             /\ lset_approx' = lset_approx
             /\ ci' = ci
             /\ ba_new_IF' = ba_new_IF]_vars

\* an assembly of a later step whose cut elements are neither none nor all
\* and differ from the cut elements of the step before
C30_Witness ==
    /\ nb = "mol" /\ pc = "asm" /\ timestep >= 1
    /\ ba_new_IF # {} /\ ba_new_IF # Elements
    /\ ba_new_IF # GetElementsOfType(CutInfo(InterpolateToP1(told, x0, 0)), "IF")
    /\ ba_band_IF # ba_new_IF

====
